---- MODULE Spec2Model ----
(***************************************************************************)
(* Model of checkov/common/bridgecrew/platform_integration.py:             *)
(* the BcPlatformIntegration session object, its credential setup, the    *)
(* repository and scan-result uploads and the commit request.              *)
(*                                                                         *)
(* Python strings are sequences of one-character strings.  An attribute    *)
(* that may be None is a sequence of length 0 (None) or 1 (the value).     *)
(***************************************************************************)
EXTENDS Integers, Sequences, FiniteSets, TLC

VARIABLES bc_api_key, s3_client, bucket, credentials, repo_path, timestamp,
          scan_reports, last, calls, commits, m

vars == <<bc_api_key, s3_client, bucket, credentials, repo_path, timestamp,
          scan_reports, last, calls, commits, m>>

(* ------------------------------ bounds -------------------------------- *)
MaxCalls == 3
MaxFiles == 2
MaxDepth == 2
MaxLeaves == 2
MaxPathLen == 4

(* ------------------------- values and strings -------------------------- *)
None == <<>>
Some(x) == <<x>>

SEP == "/"

HTTP_CREATED == 201

DEFAULT_REGION == "us-west-2"

\* str.find: the index of the first separator of s, 0 when there is none
FirstSep(s) ==
  IF \E i \in 1..Len(s) : s[i] = SEP
    THEN CHOOSE i \in 1..Len(s) : s[i] = SEP /\ \A j \in 1..(i - 1) : s[j] # SEP
    ELSE 0

\* the index of the last separator of s, 0 when there is none
LastSep(s) ==
  IF \E i \in 1..Len(s) : s[i] = SEP
    THEN CHOOSE i \in 1..Len(s) : s[i] = SEP /\ \A j \in (i + 1)..Len(s) : s[j] # SEP
    ELSE 0

\* a split at the last separator instead of the first
split_at_last(s) ==
  LET i == LastSep(s) IN
  IF i = 0 THEN <<s>>
  ELSE <<SubSeq(s, 1, i - 1), SubSeq(s, i + 1, Len(s))>>

\* repo_full_path.split("/", 1): a list of one or two strings
split_first(s) ==
  LET i == FirstSep(s) IN
  IF i = 0 THEN <<s>>
  ELSE <<SubSeq(s, 1, i - 1), SubSeq(s, i + 1, Len(s))>>

\* self.repo_path.split("/")[-1]
last_segment(s) == SubSeq(s, LastSep(s) + 1, Len(s))

\* Python truth value of an attribute holding None or a string
TruthyStr(x) == x # None /\ x[1] # <<>>

(* ------------------------------ the object ----------------------------- *)
CredentialFields == {"AccessKeyId", "SecretAccessKey", "SessionToken"}

\* truth value of self.credentials: None and the empty dict are false
TruthyCreds(x) == x # None /\ x[1].fields # {}

Self == [bc_api_key |-> bc_api_key, s3_client |-> s3_client, bucket |-> bucket,
         credentials |-> credentials, repo_path |-> repo_path,
         timestamp |-> timestamp]

configured(self) ==
  TruthyStr(self.repo_path) /\ TruthyCreds(self.credentials) /\ self.s3_client # None

is_integration_configured == configured(Self)

(* --------------------------- platform responses ------------------------ *)
\* What http.request and the platform can answer.  kind:
\*   "transport_error"  http.request raises urllib3 HTTPError
\*   "not_utf8"         the body is not UTF-8 text
\*   "not_json"         the body is text but not JSON
\*   "json_nondict"     the body is JSON but not an object (a list)
\*   "json"             the body is a JSON object with the fields below
Response(kind, status, path, creds, result) ==
  [kind |-> kind, status |-> status, path |-> path, creds |-> creds, result |-> result]

NoResponse == Response("none", 0, None, None, None)

Creds(id, fields) == [id |-> id, fields |-> fields]

CredsInputs ==
  { Creds(1, CredentialFields), Creds(2, CredentialFields),
    Creds(3, {"AccessKeyId", "SecretAccessKey"}), Creds(4, {}) }

PathInputs ==
  { <<"b", "/", "p", "/", "t">>, <<"c", "/", "q", "/">>, <<"b">>, <<"b", "/">> }

ApiKeys == { <<"k">> }
RepoIds == { <<"o", "/", "r">> }

SetupResponses ==
  { Response(k, 200, None, None, None) :
      k \in {"transport_error", "not_utf8", "not_json", "json_nondict"} }
  \cup { Response("json", 200, p, c, None) :
           p \in {None} \cup {Some(x) : x \in PathInputs},
           c \in {None} \cup {Some(x) : x \in CredsInputs} }

StatusInputs == {200, HTTP_CREATED}
ResultInputs == {"Success", "Failure"}

CommitResponses ==
  { Response("transport_error", 0, None, None, None) }
  \cup { Response(k, st, None, None, None) :
           k \in {"not_utf8", "not_json", "json_nondict"}, st \in StatusInputs }
  \cup { Response("json", st, None, None, r) :
           st \in StatusInputs, r \in {None} \cup {Some(x) : x \in ResultInputs} }

\* a request handed to http.request
Request(method, auth, body) == [method |-> method, auth |-> auth, body |-> body]

(* ----------------------- setup_bridgecrew_credentials ------------------ *)
\* the outcome of a call: the object afterwards, the exception that reaches
\* the caller ("none" on a normal return) and what the call did on the way
Outcome(self, err, errPath, reqs, slept, log) ==
  [self |-> self, err |-> err, errPath |-> errPath, reqs |-> reqs,
   slept |-> slept, log |-> log]

\* line 46: exactly one POST per call
setup_requests(key, repo_id) == << Request("POST", Some(key), Some(repo_id)) >>

\* lines 53-58: boto3.client("s3", ...) reads the three credential fields
client_fields_present(creds) == CredentialFields \subseteq creds.fields

S3Client(creds) == [creds_id |-> creds.id, region |-> DEFAULT_REGION]

\* line 52: the credentials the session keeps are the response's
stored_credentials(resp) == resp.creds

\* the responses with which the call gets as far as boto3.client
reaches_client(resp) ==
  /\ resp.kind = "json" /\ resp.path # None /\ resp.creds # None
  /\ FirstSep(resp.path[1]) # 0
  /\ client_fields_present(resp.creds[1])

\* a setup that waits as soon as it holds the credentials
setup_outcome_waiting_early(self, key, repo_id, resp, clientOk) ==
  LET reqs == setup_requests(key, repo_id)
      s0 == [self EXCEPT !.bc_api_key = Some(key)]
      Raise(s, e, log) == Outcome(s, e, None, reqs, FALSE, log)
  IN
  IF resp.kind = "transport_error" THEN Raise(s0, "HTTPError", <<"customer assumed role">>)
  ELSE IF resp.kind = "not_utf8" THEN Raise(s0, "UnicodeDecodeError", <<>>)
  ELSE IF resp.kind = "not_json" THEN Raise(s0, "JSONDecodeError", <<"not a valid JSON">>)
  ELSE IF resp.kind = "json_nondict" THEN Raise(s0, "TypeError", <<>>)
  ELSE IF resp.path = None THEN Raise(s0, "KeyError", <<>>)
  ELSE
    LET parts == split_first(resp.path[1]) IN
    IF Len(parts) # 2 THEN Raise(s0, "ValueError", <<>>)
    ELSE
      LET s1 == [s0 EXCEPT !.bucket = Some(parts[1]), !.repo_path = Some(parts[2])]
          s2 == [s1 EXCEPT !.timestamp = Some(last_segment(parts[2]))]
      IN
      IF resp.creds = None THEN Raise(s2, "KeyError", <<>>)
      ELSE
        LET s3 == [s2 EXCEPT !.credentials = stored_credentials(resp)] IN
        \* the wait comes before boto3.client
        IF ~client_fields_present(s3.credentials[1])
          THEN Outcome(s3, "KeyError", None, reqs, TRUE, <<>>)
        ELSE IF ~clientOk
          THEN Outcome(s3, "ClientError", None, reqs, TRUE, <<"initiate client">>)
        ELSE Outcome([s3 EXCEPT !.s3_client = Some(S3Client(s3.credentials[1]))],
                     "none", None, reqs, TRUE, <<>>)

\* lines 42-68; slept: line 59 was reached
setup_outcome(self, key, repo_id, resp, clientOk) ==
  LET reqs == setup_requests(key, repo_id)
      s0 == [self EXCEPT !.bc_api_key = Some(key)]
      Raise(s, e, log) == Outcome(s, e, None, reqs, FALSE, log)
  IN
  IF resp.kind = "transport_error" THEN Raise(s0, "HTTPError", <<"customer assumed role">>)
  ELSE IF resp.kind = "not_utf8" THEN Raise(s0, "UnicodeDecodeError", <<>>)
  ELSE IF resp.kind = "not_json" THEN Raise(s0, "JSONDecodeError", <<"not a valid JSON">>)
  ELSE IF resp.kind = "json_nondict" THEN Raise(s0, "TypeError", <<>>)
  ELSE IF resp.path = None THEN Raise(s0, "KeyError", <<>>)
  ELSE
    LET parts == split_first(resp.path[1]) IN
    IF Len(parts) # 2 THEN Raise(s0, "ValueError", <<>>)
    ELSE
      LET s1 == [s0 EXCEPT !.bucket = Some(parts[1]), !.repo_path = Some(parts[2])]
          s2 == [s1 EXCEPT !.timestamp = Some(last_segment(parts[2]))]
      IN
      IF resp.creds = None THEN Raise(s2, "KeyError", <<>>)
      ELSE
        LET s3 == [s2 EXCEPT !.credentials = stored_credentials(resp)] IN
        IF ~client_fields_present(s3.credentials[1]) THEN Raise(s3, "KeyError", <<>>)
        ELSE IF ~clientOk THEN Raise(s3, "ClientError", <<"initiate client">>)
        ELSE Outcome([s3 EXCEPT !.s3_client = Some(S3Client(s3.credentials[1]))],
                     "none", None, reqs, TRUE, <<>>)

(* ----------------------------- commit_repository ----------------------- *)
\* a commit that sends its request again after a transport failure
commit_requests_retrying(self, resp) ==
  IF resp.kind = "transport_error"
    THEN << Request("PUT", self.bc_api_key, self.repo_path),
            Request("PUT", self.bc_api_key, self.repo_path) >>
    ELSE << Request("PUT", self.bc_api_key, self.repo_path) >>

\* line 108: exactly one PUT per call, whatever the session and the answer
commit_requests(self, resp) == << Request("PUT", self.bc_api_key, self.repo_path) >>

\* a success condition that settles for one of the two
finalize_ok_either(status, result) == status = HTTP_CREATED \/ result = "Success"

\* line 119: the success condition of the finally block
finalize_ok(status, result) == status = HTTP_CREATED /\ result = "Success"

commit_outcome(self, resp) ==
  LET reqs == commit_requests(self, resp)
      Raise(e, log) == Outcome(self, e, None, reqs, FALSE, log)
      \* line 122: the exception raised by the finally block names repo_path
      Rejected(log) == Outcome(self, "Exception", Some(self.repo_path), reqs, FALSE, log)
  IN
  \* line 112-114, then the finally block reads request.status of None
  IF resp.kind = "transport_error" THEN Raise("AttributeError", <<"commit repository">>)
  ELSE IF resp.kind \in {"not_utf8", "not_json"} THEN
    \* the exception of the try block is replaced by the one of the finally
    \* block: response is unbound when the status is 201
    LET log == IF resp.kind = "not_json" THEN <<"not a valid JSON">> ELSE <<>> IN
    IF resp.status = HTTP_CREATED THEN Raise("UnboundLocalError", log) ELSE Rejected(log)
  ELSE IF resp.kind = "json_nondict" THEN
    IF resp.status = HTTP_CREATED THEN Raise("TypeError", <<>>) ELSE Rejected(<<>>)
  ELSE
    IF resp.status = HTTP_CREATED /\ resp.result = None THEN Raise("KeyError", <<>>)
    ELSE IF resp.result # None /\ finalize_ok(resp.status, resp.result[1])
      THEN Outcome(self, "none", None, reqs, FALSE, <<"Finalize repository">>)
    ELSE Rejected(<<>>)

(* ------------------------------ os.path -------------------------------- *)
DOT == "."

\* posixpath.join(a, b)
path_join(a, b) ==
  IF b # <<>> /\ b[1] = SEP THEN b
  ELSE IF a = <<>> \/ a[Len(a)] = SEP THEN a \o b
  ELSE a \o <<SEP>> \o b

\* the non-empty components of a path
RECURSIVE segments(_)
segments(s) ==
  IF s = <<>> THEN <<>>
  ELSE LET i == FirstSep(s) IN
       IF i = 0 THEN <<s>>
       ELSE (IF i = 1 THEN <<>> ELSE <<SubSeq(s, 1, i - 1)>>)
            \o segments(SubSeq(s, i + 1, Len(s)))

RECURSIVE join_segments(_)
join_segments(segs) ==
  IF segs = <<>> THEN <<>>
  ELSE IF Len(segs) = 1 THEN segs[1]
  ELSE segs[1] \o <<SEP>> \o join_segments(Tail(segs))

\* the length of the common prefix of two lists of components
RECURSIVE common_prefix_len(_, _)
common_prefix_len(a, b) ==
  IF a = <<>> \/ b = <<>> \/ a[1] # b[1] THEN 0
  ELSE 1 + common_prefix_len(Tail(a), Tail(b))

\* posixpath.relpath(path, start), both absolute
relpath(path, start) ==
  LET pl == segments(path)
      sl == segments(start)
      i == common_prefix_len(sl, pl)
      rel == [k \in 1..(Len(sl) - i) |-> <<DOT, DOT>>] \o SubSeq(pl, i + 1, Len(pl))
  IN IF rel = <<>> THEN <<DOT>> ELSE join_segments(rel)

\* the index of the last dot of a file name, 0 when there is none
LastDot(s) ==
  IF \E i \in 1..Len(s) : s[i] = DOT
    THEN CHOOSE i \in 1..Len(s) : s[i] = DOT /\ \A j \in (i + 1)..Len(s) : s[j] # DOT
    ELSE 0

\* os.path.splitext(file_path)[1]: leading dots do not start an extension
file_extension(name) ==
  LET d == LastDot(name) IN
  IF d > 0 /\ \E i \in 1..(d - 1) : name[i] # DOT
    THEN SubSeq(name, d, Len(name))
    ELSE <<>>

(* --------------------------- persist_repository ------------------------ *)
\* checkov.common.models.consts.SUPPORTED_FILE_EXTENSIONS
SUPPORTED_FILE_EXTENSIONS == { <<".", "t", "f">>, <<".", "y", "m", "l">> }

\* a file of the scanned tree: the directories below root_dir and its name
File(dir, name) == [dir |-> dir, name |-> name]

FileInputs ==
  { File(<<>>, <<"m", ".", "t", "f">>),
    File(<< <<"d">> >>, <<"n", ".", "y", "m", "l">>),
    File(<<>>, <<"r", ".", "m", "d">>) }

RootDirs == { <<"/", "w">> }

\* os.walk yields a directory's own files before those of its subdirectories
IsWalkOrder(t) ==
  \A i, j \in 1..Len(t) :
    i < j => (t[i] # t[j] /\ ~(t[i].dir # <<>> /\ t[j].dir = <<>>))

TreeInputs ==
  { t \in UNION { [1..n -> FileInputs] : n \in 0..MaxFiles } : IsWalkOrder(t) }

\* the directory os.walk reports for a file: root_dir joined with its directories
RECURSIVE walk_root_path(_, _)
walk_root_path(root_dir, dir) ==
  IF dir = <<>> THEN root_dir
  ELSE walk_root_path(path_join(root_dir, dir[1]), Tail(dir))

\* line 85
is_supported(file_extension_) == file_extension_ \in SUPPORTED_FILE_EXTENSIONS

\* a key that leaves out the session path
file_object_key_bare(self, relative_file_path) == relative_file_path

\* line 125
file_object_key(self, relative_file_path) == path_join(self.repo_path[1], relative_file_path)

\* one call of s3_client.upload_file
Upload(full_file_path, bucket_, key, ok) ==
  [file |-> full_file_path, bucket |-> bucket_, key |-> key, ok |-> ok]

PersistOutcome(uploads, err, errFile, log) ==
  [uploads |-> uploads, err |-> err, errFile |-> errFile, log |-> log]

\* line 128-130: the exception of upload_file is logged with the file's path
\* and raised again as it is; whether its own message names the file is the
\* storage client's affair (errNamesFile)
upload_error(uploads, full_file_path, errNamesFile) ==
  PersistOutcome(uploads, "UploadError",
                 IF errNamesFile THEN Some(full_file_path) ELSE None,
                 << full_file_path >>)

\* lines 82-88 with _persist_file (124-130), from the i-th file of the walk on;
\* failAt is the number of the upload attempt the storage refuses (0: none)
RECURSIVE persist_from(_, _, _, _, _, _, _)
persist_from(self, root_dir, tree, i, uploads, failAt, errNamesFile) ==
  IF i > Len(tree) THEN PersistOutcome(uploads, "none", None, <<>>)
  ELSE
    LET file_path == tree[i].name
        root_path == walk_root_path(root_dir, tree[i].dir)
    IN
    IF ~is_supported(file_extension(file_path))
      THEN persist_from(self, root_dir, tree, i + 1, uploads, failAt, errNamesFile)
    ELSE
      LET full_file_path == path_join(root_path, file_path)
          relative_file_path == relpath(full_file_path, root_dir)
      IN
      \* os.path.join(None, ...) raises before the try block
      IF self.repo_path = None THEN PersistOutcome(uploads, "TypeError", None, <<>>)
      \* None.upload_file raises inside the try block
      ELSE IF self.s3_client = None
        THEN PersistOutcome(uploads, "AttributeError", None, << full_file_path >>)
      ELSE
        LET n == Len(uploads) + 1
            ups == Append(uploads,
                          Upload(full_file_path, self.bucket,
                                 file_object_key(self, relative_file_path), n # failAt))
        IN
        IF n = failAt THEN upload_error(ups, full_file_path, errNamesFile)
        ELSE persist_from(self, root_dir, tree, i + 1, ups, failAt, errNamesFile)

persist_repository_outcome(self, root_dir, tree, failAt, errNamesFile) ==
  persist_from(self, root_dir, tree, 1, <<>>, failAt, errNamesFile)

(* -------------------------- persist_scan_results ----------------------- *)
\* A document is a tree: a scalar (leaf) or a mapping from keys to documents.
NoVal == <<>>
EmptyMap == [k \in {} |-> NoVal]
Leaf(v) == [leaf |-> TRUE, val |-> v, kv |-> EmptyMap]
Map(f) == [leaf |-> FALSE, val |-> NoVal, kv |-> f]

\* dpath.util.merge(dst, src) on mappings with the default flags: for every
\* key of src, a value of another type than dst's replaces it, a scalar
\* replaces dst's value, and two mappings are merged recursively
RECURSIVE merge(_, _)
merge(dst, src) ==
  Map([k \in DOMAIN dst.kv \cup DOMAIN src.kv |->
         IF k \notin DOMAIN src.kv THEN dst.kv[k]
         ELSE IF k \notin DOMAIN dst.kv THEN src.kv[k]
         ELSE IF dst.kv[k].leaf # src.kv[k].leaf THEN src.kv[k]
         ELSE IF src.kv[k].leaf THEN src.kv[k]
         ELSE merge(dst.kv[k], src.kv[k])])

\* dict.update: what a merge that does not descend would do
merged_report_shallow(reduced_scan_reports, checks_metadata_paths) ==
  Map([k \in DOMAIN reduced_scan_reports.kv \cup DOMAIN checks_metadata_paths.kv |->
         IF k \in DOMAIN checks_metadata_paths.kv THEN checks_metadata_paths.kv[k]
         ELSE reduced_scan_reports.kv[k]])

\* line 99: the document after the merge is reduced_scan_reports, merged in place
merged_report(reduced_scan_reports, checks_metadata_paths) ==
  merge(reduced_scan_reports, checks_metadata_paths)

\* a scan report: the check type it is about and its check results
Report(check_type, checks) == [check_type |-> check_type, checks |-> checks]

ReportInputs == { Report("t", <<"x">>), Report("c", <<"y">>) }

ScanReportInputs ==
  { r \in UNION { [1..n -> ReportInputs] : n \in 0..2 } :
      \A i, j \in 1..Len(r) : i < j => r[i].check_type # r[j].check_type }

CheckTypes(reports) == { reports[i].check_type : i \in 1..Len(reports) }

\* the text of repo_path in a formatted string
str(x) == IF x = None THEN <<"N", "o", "n", "e">> ELSE x[1]

\* wrapper.reduce_scan_reports: one entry per check type, the later report
\* of a type winning
reduce_scan_reports(reports) ==
  Map([ct \in CheckTypes(reports) |->
         LET i == CHOOSE i \in 1..Len(reports) :
                    /\ reports[i].check_type = ct
                    /\ \A j \in (i + 1)..Len(reports) : reports[j].check_type # ct
         IN Map([k \in {"checks"} |-> Leaf(reports[i].checks)])])

\* the key of the metadata document of a check type, and of the result document
checks_metadata_key(self, ct) == str(self.repo_path) \o <<SEP, ct, SEP, "m">>
checks_results_key(self) == str(self.repo_path) \o <<SEP, "r">>

\* the mapping enrich_and_persist_checks_metadata returns
checks_metadata_paths_of(self, reports) ==
  Map([ct \in CheckTypes(reports) |->
         Map([k \in {"checks_metadata_path"} |-> Leaf(checks_metadata_key(self, ct))])])

\* wrapper.enrich_and_persist_checks_metadata: one upload per distinct check
\* type, in report order
RECURSIVE publish_metadata(_, _, _, _, _, _)
publish_metadata(self, reports, i, done, uploads, failAt) ==
  IF i > Len(reports) THEN PersistOutcome(uploads, "none", None, <<>>)
  ELSE
    LET ct == reports[i].check_type IN
    IF ct \in done
      THEN publish_metadata(self, reports, i + 1, done \cup {ct}, uploads, failAt)
    ELSE IF self.s3_client = None THEN PersistOutcome(uploads, "AttributeError", None, <<>>)
    ELSE
      LET n == Len(uploads) + 1
          key == checks_metadata_key(self, ct)
          ups == Append(uploads, Upload(<<"m", ct>>, self.bucket, key, n # failAt))
      IN
      IF n = failAt THEN PersistOutcome(ups, "UploadError", Some(key), <<>>)
      ELSE publish_metadata(self, reports, i + 1, done \cup {ct}, ups, failAt)

\* wrapper.persist_checks_results: the merged document goes to one fixed key
persist_checks_results(self, doc, uploads, failAt) ==
  IF self.s3_client = None THEN PersistOutcome(uploads, "AttributeError", None, <<>>)
  ELSE
    LET n == Len(uploads) + 1
        key == checks_results_key(self)
        ups == Append(uploads, Upload(<<"r">>, self.bucket, key, n # failAt))
    IN
    IF n = failAt THEN PersistOutcome(ups, "UploadError", Some(key), <<>>)
    ELSE PersistOutcome(ups, "none", None, <<>>)

\* a call that uploads the result document whatever became of the metadata
persist_scan_results_outcome_regardless(self, reports, failAt) ==
  LET reduced_scan_reports == reduce_scan_reports(reports)
      published == publish_metadata(self, reports, 1, {}, <<>>, failAt)
      doc == merged_report(reduced_scan_reports, checks_metadata_paths_of(self, reports))
      uploaded == persist_checks_results(self, doc, published.uploads, failAt)
  IN
  IF published.err # "none"
    THEN [out |-> [published EXCEPT !.uploads = uploaded.uploads],
          doc |-> None, stage |-> "publish"]
    ELSE [out |-> uploaded, doc |-> Some(doc), stage |-> "upload"]

\* lines 95-100 after the assignment of self.scan_reports; doc is the
\* document handed to persist_checks_results, None when it is not reached
persist_scan_results_outcome(self, reports, failAt) ==
  LET reduced_scan_reports == reduce_scan_reports(reports)
      published == publish_metadata(self, reports, 1, {}, <<>>, failAt)
  IN
  IF published.err # "none" THEN [out |-> published, doc |-> None, stage |-> "publish"]
  ELSE
    LET doc == merged_report(reduced_scan_reports, checks_metadata_paths_of(self, reports))
    IN [out |-> persist_checks_results(self, doc, published.uploads, failAt),
        doc |-> Some(doc), stage |-> "upload"]

(* ------------------------------ the session ---------------------------- *)
\* what the last call did, as its caller and the platform saw it
NoCall ==
  [op |-> "none", err |-> "none", errPath |-> None, errFile |-> None,
   reqs |-> <<>>, uploads |-> <<>>, slept |-> FALSE, log |-> <<>>,
   resp |-> NoResponse, clientOk |-> TRUE, tree |-> <<>>, root_dir |-> <<>>,
   doc |-> None, stage |-> "none"]

NoMerge == [phase |-> "none", dst |-> Map(EmptyMap), src |-> Map(EmptyMap),
            once |-> Map(EmptyMap), twice |-> Map(EmptyMap)]

\* lines 29-36
Init ==
  /\ bc_api_key = None
  /\ s3_client = None
  /\ bucket = None
  /\ credentials = None
  /\ repo_path = None
  /\ timestamp = None
  /\ scan_reports = <<>>
  /\ last = NoCall
  /\ calls = 0
  /\ commits = 0
  /\ m = NoMerge

\* lines 38-68
setup_bridgecrew_credentials(key, repo_id, resp, clientOk) ==
  /\ calls < MaxCalls
  /\ LET o == setup_outcome(Self, key, repo_id, resp, clientOk) IN
     /\ bc_api_key' = o.self.bc_api_key
     /\ s3_client' = o.self.s3_client
     /\ bucket' = o.self.bucket
     /\ credentials' = o.self.credentials
     /\ repo_path' = o.self.repo_path
     /\ timestamp' = o.self.timestamp
     /\ last' = [NoCall EXCEPT !.op = "setup", !.err = o.err, !.errPath = o.errPath,
                               !.reqs = o.reqs, !.slept = o.slept, !.log = o.log,
                               !.resp = resp, !.clientOk = clientOk]
  /\ calls' = calls + 1
  /\ UNCHANGED <<scan_reports, commits, m>>

\* lines 77-88
persist_repository(root_dir, tree, failAt, errNamesFile) ==
  /\ calls < MaxCalls
  /\ LET o == persist_repository_outcome(Self, root_dir, tree, failAt, errNamesFile) IN
     last' = [NoCall EXCEPT !.op = "persist_repository", !.err = o.err,
                            !.errFile = o.errFile, !.uploads = o.uploads,
                            !.log = o.log, !.tree = tree, !.root_dir = root_dir]
  /\ calls' = calls + 1
  /\ UNCHANGED <<bc_api_key, s3_client, bucket, credentials, repo_path, timestamp,
                 scan_reports, commits, m>>

\* lines 90-100
persist_scan_results(reports, failAt) ==
  /\ calls < MaxCalls
  /\ scan_reports' = reports
  /\ LET o == persist_scan_results_outcome(Self, reports, failAt) IN
     last' = [NoCall EXCEPT !.op = "persist_scan_results", !.err = o.out.err,
                            !.errFile = o.out.errFile, !.uploads = o.out.uploads,
                            !.doc = o.doc, !.stage = o.stage]
  /\ calls' = calls + 1
  /\ UNCHANGED <<bc_api_key, s3_client, bucket, credentials, repo_path, timestamp,
                 commits, m>>

\* a commit that forgets the session once the platform has accepted it
commit_repository_forgetting(resp) ==
  /\ calls < MaxCalls
  /\ LET o == commit_outcome(Self, resp) IN
     /\ last' = [NoCall EXCEPT !.op = "commit", !.err = o.err, !.errPath = o.errPath,
                               !.reqs = o.reqs, !.log = o.log, !.resp = resp]
     /\ commits' = IF o.err = "none" THEN commits + 1 ELSE commits
     /\ repo_path' = IF o.err = "none" THEN None ELSE repo_path
     /\ credentials' = IF o.err = "none" THEN None ELSE credentials
  /\ calls' = calls + 1
  /\ UNCHANGED <<bc_api_key, s3_client, bucket, timestamp, scan_reports, m>>

\* lines 102-122
commit_repository(resp) ==
  /\ calls < MaxCalls
  /\ LET o == commit_outcome(Self, resp) IN
     /\ last' = [NoCall EXCEPT !.op = "commit", !.err = o.err, !.errPath = o.errPath,
                               !.reqs = o.reqs, !.log = o.log, !.resp = resp]
     /\ commits' = IF o.err = "none" THEN commits + 1 ELSE commits
  /\ calls' = calls + 1
  /\ UNCHANGED <<bc_api_key, s3_client, bucket, credentials, repo_path, timestamp,
                 scan_reports, m>>

Next ==
  \/ \E key \in ApiKeys, repo_id \in RepoIds, resp \in SetupResponses, clientOk \in BOOLEAN :
       /\ (~clientOk => reaches_client(resp))
       /\ setup_bridgecrew_credentials(key, repo_id, resp, clientOk)
  \/ \E root_dir \in RootDirs, tree \in TreeInputs, failAt \in 0..MaxFiles,
        errNamesFile \in BOOLEAN :
       /\ failAt <= Len(tree)
       /\ (failAt = 0 => errNamesFile)
       /\ persist_repository(root_dir, tree, failAt, errNamesFile)
  \/ \E reports \in ScanReportInputs, failAt \in 0..3 :
       /\ failAt <= Len(reports) + 1
       /\ persist_scan_results(reports, failAt)
  \/ \E resp \in CommitResponses : commit_repository(resp)

Spec == Init /\ [][Next]_vars

(* ----------------------- the merge on its own -------------------------- *)
MergeKeys == {"a", "b"}
\* the scalars of reduced results and those of metadata-path maps
ResultScalars == { <<"x">> }
PathScalars == { <<"y">> }

\* the documents of at most d levels below the root with the given scalars
RECURSIVE DocTrees(_, _)
DocTrees(d, scalars) ==
  IF d = 0 THEN { Leaf(v) : v \in scalars }
  ELSE LET sub == DocTrees(d - 1, scalars) IN
       { Leaf(v) : v \in scalars }
       \cup { Map(f) : f \in UNION { [S -> sub] : S \in SUBSET MergeKeys } }

\* the scalars and empty mappings of a document
RECURSIVE LeafCount(_)
LeafCount(t) ==
  IF t.leaf \/ DOMAIN t.kv = {} THEN 1
  ELSE LET RECURSIVE Sum(_)
           Sum(S) == IF S = {} THEN 0
                     ELSE LET k == CHOOSE k \in S : TRUE
                          IN LeafCount(t.kv[k]) + Sum(S \ {k})
       IN Sum(DOMAIN t.kv)

MergeDocs(scalars) ==
  { t \in DocTrees(MaxDepth, scalars) : ~t.leaf /\ LeafCount(t) <= MaxLeaves }

InitMerge ==
  /\ bc_api_key = None
  /\ s3_client = None
  /\ bucket = None
  /\ credentials = None
  /\ repo_path = None
  /\ timestamp = None
  /\ scan_reports = <<>>
  /\ last = NoCall
  /\ calls = 0
  /\ commits = 0
  /\ \E d \in MergeDocs(ResultScalars), s \in MergeDocs(PathScalars) :
       m = [NoMerge EXCEPT !.phase = "input", !.dst = d, !.src = s]

\* line 99, on a reduced result and a metadata-path map
apply_merge ==
  /\ m.phase = "input"
  /\ m' = [m EXCEPT !.phase = "once", !.once = merged_report(m.dst, m.src)]
  /\ UNCHANGED <<bc_api_key, s3_client, bucket, credentials, repo_path, timestamp,
                 scan_reports, last, calls, commits>>

\* line 99 again, on the merged document and the same map
repeat_merge ==
  /\ m.phase = "once"
  /\ m' = [m EXCEPT !.phase = "twice", !.twice = merged_report(m.once, m.src)]
  /\ UNCHANGED <<bc_api_key, s3_client, bucket, credentials, repo_path, timestamp,
                 scan_reports, last, calls, commits>>

NextMerge == apply_merge \/ repeat_merge

SpecMerge == InitMerge /\ [][NextMerge]_vars

(* ------------------- the split of the response path -------------------- *)
\* one call of setup_bridgecrew_credentials on a fresh object, the platform
\* answering with any path over PathAlphabet and usable credentials
PathAlphabet == {"a", "b", SEP}

AllPaths == UNION { [1..n -> PathAlphabet] : n \in 0..MaxPathLen }

NextSplit ==
  \E key \in ApiKeys, repo_id \in RepoIds, path \in AllPaths :
    /\ calls = 0
    /\ setup_bridgecrew_credentials(key, repo_id,
         Response("json", 200, Some(path), Some(Creds(1, CredentialFields)), None), TRUE)

SpecSplit == Init /\ [][NextSplit]_vars

(* ------------------------------ properties ----------------------------- *)
ValidResponse(resp) ==
  /\ resp.kind = "json" /\ resp.path # None /\ resp.creds # None
  /\ FirstSep(resp.path[1]) # 0
  /\ FirstSep(resp.path[1]) < Len(resp.path[1])
  /\ resp.creds[1].fields = CredentialFields

MalformedResponse(resp) ==
  \/ resp.kind = "not_json"
  \/ resp.kind = "json" /\ (resp.path = None \/ resp.creds = None)

\* C1: after setup_bridgecrew_credentials with a valid response
\* is_integration_configured() is true; with a malformed response (no creds,
\* no path, not JSON) the call fails with the malformed-response (JSON
\* decode) error and is_integration_configured() is false afterwards.
C1_SetupContract ==
  last.op = "setup" =>
    /\ (ValidResponse(last.resp) /\ last.clientOk) =>
         (last.err = "none" /\ is_integration_configured)
    /\ MalformedResponse(last.resp) =>
         (last.err = "JSONDecodeError" /\ ~is_integration_configured)

\* C2: once commit_repository has succeeded, another call of it raises and
\* sends no request, and no second commit succeeds.
C2_CommitAtMostOnce ==
  [][(commits >= 1 /\ last'.op = "commit" /\ calls' = calls + 1) =>
       (last'.err # "none" /\ last'.reqs = <<>> /\ commits' = commits)]_vars

\* C3: commit_repository returns normally exactly when the status is 201 and
\* the parsed body's result is "Success"; when exactly one of the two holds
\* it raises the error that names repo_path.
C3_CommitSuccessIff ==
  last.op = "commit" =>
    LET r == last.resp
        created == r.kind # "transport_error" /\ r.status = HTTP_CREATED
        success == r.kind = "json" /\ r.result = Some("Success")
    IN
    /\ last.err = "none" <=> (created /\ success)
    /\ (r.kind = "json" /\ r.result # None /\ (created # success)) =>
         (last.err = "Exception" /\ last.errPath = Some(repo_path))

C3_Witness ==
  /\ last.op = "commit" /\ is_integration_configured
  /\ last.resp.kind = "json" /\ last.resp.status = HTTP_CREATED
  /\ last.resp.result = Some("Failure")
  /\ last.err = "Exception" /\ last.errPath = Some(repo_path)

\* C4: a commit answer that is not JSON surfaces the JSON decode error, an
\* answer that parses with another result than "Success" surfaces the
\* error naming repo_path, whatever the status.
C4_MalformedIsNotRejected ==
  last.op = "commit" =>
    /\ last.resp.kind = "not_json" => last.err = "JSONDecodeError"
    /\ (last.resp.kind = "json" /\ last.resp.result \notin {None, Some("Success")}) =>
         (last.err = "Exception" /\ last.errPath = Some(repo_path))

\* C5: between calls repo_path and credentials are both unset or both set.
C5_PathAndCredentialsTogether == (repo_path = None) <=> (credentials = None)

\* C6: a call issues an upload or a commit request only when
\* is_integration_configured() held before it, and no upload after a commit
\* has succeeded.
C6_StrictlySequential ==
  [][/\ (last'.uploads # <<>> \/ (last'.op = "commit" /\ last'.reqs # <<>>))
          => is_integration_configured
     /\ last'.uploads # <<>> => commits = 0]_vars

\* the path of a file relative to root_dir, its full path and whether
\* persist_repository is to upload it
ExpectedRel(f) == join_segments(f.dir \o <<f.name>>)
ExpectedFull(root_dir, f) == root_dir \o <<SEP>> \o ExpectedRel(f)
Eligible(f) == file_extension(f.name) \in SUPPORTED_FILE_EXTENSIONS

\* the key os.path.join gives a file under a session path
SessionKey(session_path, rel) ==
  IF session_path = <<>> \/ session_path[Len(session_path)] = SEP
    THEN session_path \o rel
    ELSE session_path \o <<SEP>> \o rel

\* the uploads of the last call are those of eligible files of its tree,
\* one per file at most, each to the session bucket under Key(file)
UploadsAreEligible(Key(_)) ==
  /\ \A j \in 1..Len(last.uploads) :
       \E i \in 1..Len(last.tree) :
         /\ Eligible(last.tree[i])
         /\ last.uploads[j].file = ExpectedFull(last.root_dir, last.tree[i])
         /\ last.uploads[j].key = Key(last.tree[i])
         /\ last.uploads[j].bucket = bucket
  /\ \A j, k \in 1..Len(last.uploads) :
       j # k => last.uploads[j].file # last.uploads[k].file

EveryEligibleUploaded ==
  \A i \in 1..Len(last.tree) :
    Eligible(last.tree[i]) =>
      \E j \in 1..Len(last.uploads) :
        last.uploads[j].file = ExpectedFull(last.root_dir, last.tree[i])

\* C7 as stated: a persist_repository that returns, on a configured session, has uploaded each file
\* with a supported extension once and no other file, to the session bucket
\* under the key repo_path + "/" + relative path.
C7_KeysArePathSlashRelative ==
  (last.op = "persist_repository" /\ last.err = "none" /\ is_integration_configured) =>
    LET Key(f) == repo_path[1] \o <<SEP>> \o ExpectedRel(f) IN
    UploadsAreEligible(Key) /\ EveryEligibleUploaded

\* C7 as amended: the same with the key os.path.join(repo_path, relative
\* path), which has no added "/" when repo_path is empty or ends with "/";
\* the uploads of a call that raises are of that form too.
C7_UploadsExactlyEligible ==
  last.op = "persist_repository" =>
    LET Key(f) == SessionKey(repo_path[1], ExpectedRel(f)) IN
    /\ UploadsAreEligible(Key)
    /\ last.err = "none" => EveryEligibleUploaded

C7_Witness ==
  /\ last.op = "persist_repository" /\ last.err = "none"
  /\ is_integration_configured
  /\ \E i, j \in 1..Len(last.tree) :
       /\ ~Eligible(last.tree[i])
       /\ Eligible(last.tree[j]) /\ last.tree[j].dir # <<>>
  /\ Len(last.uploads) = 1

\* C8: when the storage refuses an upload, persist_repository raises, has
\* tried no file twice and none after the refused one, and the error that
\* reaches the caller names the refused file's path.
C8_FirstFailureAborts ==
  (last.op = "persist_repository"
     /\ \E j \in 1..Len(last.uploads) : ~last.uploads[j].ok) =>
    /\ last.err # "none"
    /\ \A j, k \in 1..Len(last.uploads) :
         j # k => last.uploads[j].file # last.uploads[k].file
    /\ \A j \in 1..Len(last.uploads) : ~last.uploads[j].ok => j = Len(last.uploads)
    /\ last.errFile = Some(last.uploads[Len(last.uploads)].file)

\* the key sequences that lead to the scalars and empty mappings of a document
RECURSIVE PathsOf(_, _)
PathsOf(t, prefix) ==
  IF t.leaf \/ DOMAIN t.kv = {} THEN {prefix}
  ELSE UNION { PathsOf(t.kv[k], Append(prefix, k)) : k \in DOMAIN t.kv }

NamedPaths(src) == IF DOMAIN src.kv = {} THEN {} ELSE PathsOf(src, <<>>)

IsPrefix(p, q) == Len(p) <= Len(q) /\ SubSeq(q, 1, Len(p)) = p

\* p is neither on nor below nor above a path the map names
Outside(p, src) == \A q \in NamedPaths(src) : ~IsPrefix(p, q) /\ ~IsPrefix(q, p)

RECURSIVE HasPath(_, _)
HasPath(t, p) ==
  \/ p = <<>>
  \/ ~t.leaf /\ Head(p) \in DOMAIN t.kv /\ HasPath(t.kv[Head(p)], Tail(p))

RECURSIVE At(_, _)
At(t, p) == IF p = <<>> THEN t ELSE At(t.kv[Head(p)], Tail(p))

\* C9: merging a metadata-path map into a reduced result keeps every path
\* of the result outside the map's paths as it was and adds none there,
\* and merging the same map again changes nothing.
C9_MergeLocalAndIdempotent ==
  /\ m.phase \in {"once", "twice"} =>
       /\ \A p \in PathsOf(m.dst, <<>>) :
            Outside(p, m.src) => (HasPath(m.once, p) /\ At(m.once, p) = At(m.dst, p))
       /\ \A p \in PathsOf(m.once, <<>>) :
            Outside(p, m.src) => (HasPath(m.dst, p) /\ At(m.dst, p) = At(m.once, p))
  /\ m.phase = "twice" => m.twice = m.once

C9_Witness ==
  /\ m.phase = "twice" /\ m.once # m.dst
  /\ \E p \in PathsOf(m.dst, <<>>), q \in NamedPaths(m.src) :
       /\ Outside(p, m.src)
       /\ Len(p) = 2 /\ Len(q) = 2 /\ p[1] = q[1]

\* C10: every call of setup_bridgecrew_credentials and of commit_repository
\* sends exactly one request, whether it returns or raises.
C10_OneRequestPerCall ==
  /\ last.op = "setup" => (Len(last.reqs) = 1 /\ last.reqs[1].method = "POST")
  /\ last.op = "commit" => (Len(last.reqs) = 1 /\ last.reqs[1].method = "PUT")

C10_Witness ==
  /\ last.op = "commit" /\ last.resp.kind = "transport_error"
  /\ last.err # "none" /\ Len(last.reqs) = 1

\* C11: a call of persist_repository, persist_scan_results or
\* commit_repository, returning or raising, leaves bc_api_key, bucket,
\* repo_path, timestamp, credentials and the storage client as they were.
SessionFields == <<bc_api_key, bucket, repo_path, timestamp, credentials, s3_client>>

C11_OnlySetupWritesTheSession ==
  [][(calls' = calls + 1
        /\ last'.op \in {"persist_repository", "persist_scan_results", "commit"})
       => SessionFields' = SessionFields]_vars

C11_Witness ==
  /\ is_integration_configured
  /\ last.op = "commit" /\ last.err = "none" /\ commits = 1

\* C12: when http.request fails in commit_repository, the exception that
\* reaches the caller is the transport error.
C12_TransportErrorReachesCaller ==
  (last.op = "commit" /\ last.resp.kind = "transport_error") => last.err = "HTTPError"

\* C13: persist_scan_results reduces, publishes the metadata, merges and only
\* then uploads the result document: the result document is uploaded at
\* most once per call, as the last upload, after a successful metadata upload
\* for every check type and with the metadata paths merged into it; a call
\* whose metadata publishing fails raises and uploads no result document.
IsResultUpload(u) == u.file = <<"r">>
IsMetadataUpload(u) == Len(u.file) = 2 /\ u.file[1] = "m"

ResultUploads(uploads) == { i \in 1..Len(uploads) : IsResultUpload(uploads[i]) }

C13_ResultAfterMetadata ==
  last.op = "persist_scan_results" =>
    LET ups == last.uploads
        R == ResultUploads(ups)
        types == CheckTypes(scan_reports)
    IN
    /\ Cardinality(R) <= 1
    /\ \A i \in R :
         /\ i = Len(ups)
         /\ \A ct \in types : \E j \in 1..(i - 1) : ups[j].file = <<"m", ct>> /\ ups[j].ok
         /\ \A j \in 1..(i - 1) : IsMetadataUpload(ups[j]) /\ ups[j].ok
         /\ last.doc # None
         /\ DOMAIN last.doc[1].kv = types
         /\ \A ct \in types :
              DOMAIN last.doc[1].kv[ct].kv = {"checks", "checks_metadata_path"}
    /\ (\E j \in 1..Len(ups) : IsMetadataUpload(ups[j]) /\ ~ups[j].ok)
         => (last.err # "none" /\ R = {})
    /\ last.stage = "publish" => (last.err # "none" /\ R = {})
    /\ last.err = "none" => Cardinality(R) = 1

C13_Witness ==
  /\ is_integration_configured
  /\ last.op = "persist_scan_results" /\ last.stage = "publish"
  /\ last.err = "UploadError" /\ Len(last.uploads) = 2
  /\ last.uploads[1].ok /\ ~last.uploads[2].ok

\* C14: a response path with at least one separator is split at its first
\* separator only: the bucket holds no separator, bucket + "/" + repo_path is
\* the path, and the timestamp is what follows the last separator of
\* repo_path (all of it when it has none); a path without a separator makes
\* the call raise and yields no session.
HasSep(s) == \E i \in 1..Len(s) : s[i] = SEP

IsLastSegmentOf(t, s) ==
  /\ ~HasSep(t)
  /\ Len(t) <= Len(s)
  /\ SubSeq(s, Len(s) - Len(t) + 1, Len(s)) = t
  /\ (Len(t) < Len(s) => s[Len(s) - Len(t)] = SEP)

C14_SplitAtFirstSeparator ==
  (last.op = "setup" /\ last.resp.kind = "json" /\ last.resp.path # None) =>
    LET path == last.resp.path[1] IN
    IF HasSep(path)
      THEN /\ bucket # None /\ repo_path # None /\ timestamp # None
           /\ ~HasSep(bucket[1])
           /\ bucket[1] \o <<SEP>> \o repo_path[1] = path
           /\ IsLastSegmentOf(timestamp[1], repo_path[1])
      ELSE /\ last.err # "none"
           /\ calls = 1 => (repo_path = None /\ ~is_integration_configured)

C14_Witness ==
  /\ last.op = "setup" /\ last.err = "none" /\ is_integration_configured
  /\ Len(last.resp.path[1]) = MaxPathLen
  /\ Cardinality({ i \in 1..MaxPathLen : last.resp.path[1][i] = SEP }) = 2
  /\ timestamp[1] # <<>> /\ timestamp # repo_path

\* C15: a call of setup_bridgecrew_credentials that returns normally has
\* performed the wait of line 59, holding the response's credentials and the
\* client built from them; a call that raises has not waited.
C15_WaitsOnlyAfterClient ==
  last.op = "setup" =>
    /\ last.err = "none" =>
         /\ last.slept
         /\ credentials # None /\ credentials = last.resp.creds
         /\ s3_client = Some(S3Client(credentials[1]))
    /\ last.err # "none" => ~last.slept

C15_Witness ==
  /\ last.op = "setup" /\ last.err = "none" /\ last.slept
  /\ calls = 2 /\ s3_client # None /\ s3_client[1].creds_id = 2

\* C16: whenever is_integration_configured() is true after a call of
\* setup_bridgecrew_credentials, the bucket, repo_path, timestamp, credentials
\* and client all come from one response: from the response of this call, or,
\* when this call stored nothing new, from what the session held before it.
SessionFromLastResponse ==
  /\ last.resp.kind = "json" /\ last.resp.path # None /\ last.resp.creds # None
  /\ bucket # None /\ repo_path # None /\ timestamp # None
  /\ bucket[1] \o <<SEP>> \o repo_path[1] = last.resp.path[1]
  /\ IsLastSegmentOf(timestamp[1], repo_path[1])
  /\ credentials = last.resp.creds
  /\ s3_client = Some(S3Client(last.resp.creds[1]))

ResponseFields == <<bucket, repo_path, timestamp, credentials, s3_client>>

C16_SessionFromOneResponse ==
  [][(calls' = calls + 1 /\ last'.op = "setup" /\ is_integration_configured')
       => (SessionFromLastResponse' \/ ResponseFields' = ResponseFields)]_vars

====
